---------------------------- MODULE Spec2Model ----------------------------
(***************************************************************************)
(* A model of src/src/connections.py (BEE2.4, "Manages PeTI item           *)
(* connections"):                                                          *)
(*   - Connection.add / remove / set_item over the Item.inputs and         *)
(*     Item.outputs sets                                      (SpecConn)   *)
(*   - ItemType.parse and read_configs                        (SpecParse)  *)
(*   - calc_connections: the classification scan, the overlay scan, the    *)
(*     edge building with panel reconciliation, the connection-count       *)
(*     fixups and the signage frames      (Spec, SpecPanel, SpecSign)      *)
(***************************************************************************)
EXTENDS Integers, Sequences, FiniteSets, TLC

VARIABLES
    \* ---- Item / Connection objects (class Item, class Connection)
    inputs,      \* Item -> set of Connections   (Item.inputs)
    outputs,     \* Item -> set of Connections   (Item.outputs)
    conns,       \* Connection -> [inp, out, type, outputs]
    last,        \* the last Connection method called (history)
    \* ---- read_configs / ItemType.parse
    conf,        \* the 'Items' children of the config: a sequence of props
    propIdx,     \* number of props read_configs has gone through
    ITEM_TYPES,  \* prop.name -> ItemType
    perr,        \* the exception read_configs ended with, or NoError
    \* ---- calc_connections: the scene (vmf) and the parameters
    instSet,     \* vmf.by_class['func_instance']
    known,       \* the instances whose item id is a key of ITEM_TYPES
    instOuts,    \* inst.outputs of each item instance (a list of Outputs)
    timDelay,    \* panel -> fixup $timer_delay
    timEnabled,  \* panel -> fixup $is_timer
    panFile,     \* panel -> inst['file']
    connCount,   \* item instance -> fixup $connectioncount ({} = no such key)
    connCountTbeam, \* item instance -> fixup $connectioncount_polarity
    ents,        \* vmf.by_class['info_overlay']: id -> [targetname, material, renderorder]
    shape_frame_tex,    \* parameter: list of frame materials
    enable_shape_frame, \* parameter
    \* ---- calc_connections: locals and position
    pc,          \* the loop calc_connections is in
    scanned,     \* instances the first loop has visited
    ovScanned,   \* overlays the second loop has visited
    toggles,     \* names of the toggles found
    panels,      \* names of the panels found
    overlays,    \* antline name -> set of overlay entities
    sign_shape_overlays, \* list of [name, mat, ents] in dict order
    shapes,      \* ShapeSignage objects: id -> [name, index, overlays, repeat_group, overlay_frames]
    sign_shape_by_index, \* palette index -> list of shapes
    built,       \* number of ITEMS the edge-building loop has gone through
    fixed,       \* number of ITEMS the fixup loop has gone through
    err,         \* the exception calc_connections ended with, or NoError
    \* ---- the ITEMS registry (module level)
    ITEMS,       \* the keys of ITEMS, in dict order
    timer,       \* Item -> {} (None) or {n}
    ind_panels,  \* Item -> set of panels
    antlines,    \* Item -> set of overlay entities
    \* ---- history
    runs,        \* calls of calc_connections so far
    prevCounts,  \* the counters as the previous call left them
    entsAtStart, \* the overlays as they were when this call started
    enabledAtStart \* the panels' $is_timer as they were when this call started

connVars == <<inputs, outputs, conns, last>>
parseVars == <<conf, propIdx, ITEM_TYPES, perr>>
sceneVars == <<instSet, known, instOuts, timDelay, shape_frame_tex, enable_shape_frame>>
fixupVars == <<timEnabled, panFile, connCount, connCountTbeam>>
localVars == <<scanned, ovScanned, toggles, panels, overlays, sign_shape_overlays,
               shapes, sign_shape_by_index, built, fixed>>
itemVars == <<ITEMS, timer, ind_panels, antlines>>
histVars == <<runs, prevCounts, entsAtStart, enabledAtStart>>
vars == <<connVars, parseVars, sceneVars, fixupVars, ents, localVars, itemVars,
          histVars, pc, err>>

NoError == [kind |-> "none"]
EmptyFn == [x \in {} |-> {}]

(***************************************************************************)
(* Bounds.                                                                 *)
(***************************************************************************)
NumItems == 2
NumConns == 2
MaxProps == 2
MaxOuts == 2
MaxPanelOuts == 3
MaxOverlays == 3
MaxRuns == 2

(***************************************************************************)
(* ConnType (lines 16-24): the four values; TBEAM_IO and TBEAM_DIR are     *)
(* aliases of PRIMARY and SECONDARY.                                       *)
(***************************************************************************)
DEFAULT == "default"
PRIMARY == "primary"
SECONDARY == "secondary"
BOTH == "both"
TBEAM_IO == PRIMARY
TBEAM_DIR == SECONDARY
ConnTypeValues == {DEFAULT, PRIMARY, SECONDARY, BOTH}

(***************************************************************************)
(* class Connection (lines 254-300).                                       *)
(***************************************************************************)
\* input=None / output=None of set_item
NoItem == 0
ConnItems == 1..NumItems
ConnIds == 1..NumConns

\* Connection.__init__: the object holds its endpoints and is in no set yet.
NewConnection(to_item, from_item, conn_type, outs) ==
    [inp |-> to_item, out |-> from_item, type |-> conn_type, outputs |-> outs]

\* self.inp.inputs.add(self)
AddInputs(ins, cn, c) == [ins EXCEPT ![cn[c].inp] = @ \cup {c}]
\* self.out.outputs.add(self)
AddOutputs(outs, cn, c) == [outs EXCEPT ![cn[c].out] = @ \cup {c}]
\* A faulty discard, which leaves the Connection in the target's inputs
DiscardInputsKept(ins, cn, c) == ins
\* self.inp.inputs.discard(self)
DiscardInputs(ins, cn, c) == [ins EXCEPT ![cn[c].inp] = @ \ {c}]
\* self.out.outputs.discard(self)
DiscardOutputs(outs, cn, c) == [outs EXCEPT ![cn[c].out] = @ \ {c}]

\* set_item's two assignments
Relocated(cn, c, input, output) ==
    [cn EXCEPT ![c].inp = IF input # NoItem THEN input ELSE @,
               ![c].out = IF output # NoItem THEN output ELSE @]

nonConnVars == <<parseVars, sceneVars, fixupVars, ents, localVars, itemVars,
                 histVars, pc, err>>

\* What the history keeps of a call: the method, the Connection, the
\* arguments, and whether the call moved a registered Connection to another
\* target Item
Called(op, c, input, output) ==
    [op |-> op, c |-> c, input |-> input, output |-> output,
     moved |-> c \in inputs[conns[c].inp] /\ input \notin {NoItem, conns[c].inp}]
NoLast == [op |-> "none", c |-> 0, input |-> NoItem, output |-> NoItem,
           moved |-> FALSE]

Add(c) ==
    /\ pc = "conn"
    /\ inputs' = AddInputs(inputs, conns, c)
    /\ outputs' = AddOutputs(outputs, conns, c)
    /\ conns' = conns
    /\ last' = Called("add", c, NoItem, NoItem)
    /\ UNCHANGED nonConnVars

Remove(c) ==
    /\ pc = "conn"
    /\ inputs' = DiscardInputs(inputs, conns, c)
    /\ outputs' = DiscardOutputs(outputs, conns, c)
    /\ conns' = conns
    /\ last' = Called("remove", c, NoItem, NoItem)
    /\ UNCHANGED nonConnVars

SetItem(c, input, output) ==
    /\ pc = "conn"
    /\ LET ins1 == DiscardInputs(inputs, conns, c)
           outs1 == DiscardOutputs(outputs, conns, c)
           cn2 == Relocated(conns, c, input, output)
       IN  /\ conns' = cn2
           /\ inputs' = AddInputs(ins1, cn2, c)
           /\ outputs' = AddOutputs(outs1, cn2, c)
    /\ last' = Called("set_item", c, input, output)
    /\ UNCHANGED nonConnVars


NextConn ==
    \/ \E c \in ConnIds : Add(c)
    \/ \E c \in ConnIds : Remove(c)
    \/ \E c \in ConnIds : \E input, output \in ConnItems \cup {NoItem} :
           SetItem(c, input, output)

(***************************************************************************)
(* The scene calc_connections reads.  The instances are a fixed cast; a    *)
(* scene holds a subset of them.  An instance's targetname is its id,      *)
(* except for "U", which has none.                                         *)
(***************************************************************************)
InstIds == {"A", "B", "P1", "P2", "T", "U"}
ItemInsts == {"A", "B"}
PanelInsts == {"P1", "P2"}

\* inst['targetname']
TargetName(i) == IF i = "U" THEN "" ELSE i

\* instance_traits.get(inst)
Traits(i) ==
    CASE i = "B" -> {"tbeam_emitter"}
      [] i \in PanelInsts -> {"indicator_panel"}
      [] i = "T" -> {"indicator_toggle"}
      [] OTHER -> {}

\* instance_traits.get_item_id(inst), as the error message shows it
ItemId(i) == IF i = "A" THEN "ITEM_BUTTON" ELSE "ITEM_TBEAM"

\* inst_toggle.fixup['indicator_name']: the name of the toggle's antlines
IndicatorName(t) == "ant1"

\* out_name.endswith(('_modelStart', '_modelEnd', '_brush')), on the target
\* names the scenes use
HasSkipSuffix(out_name) == out_name \in {"B_brush", "A_modelStart", "A_modelEnd"}

\* (out.inst_in, out.input) pairs: conditions.TBEAM_CONN_ACT/DEACT and the
\* in_act/in_deact of CONNECTIONS['item_tbeam']
tbeam_polarity == {"pol_act", "pol_deact"}
tbeam_io == {"io_act", "io_deact"}

\* panel_timer / panel_check
panel_timer == "indPanTimer"
panel_check == "indPanCheck"

\* The timer range of line 407
TimerMin == 1
TimerMax == 30

(***************************************************************************)
(* SIGN_ORDER and SIGN_ORDER_LOOKUP (lines 52-69).  Materials are written  *)
(* as the palette writes them, so mat.casefold() is mat.                   *)
(***************************************************************************)
SIGN_ORDER == <<"SHAPE_DOT", "SHAPE_MOON", "SHAPE_TRIANGLE", "SHAPE_CROSS",
                "SHAPE_SQUARE", "SHAPE_CIRCLE", "SHAPE_SINE", "SHAPE_SLASH",
                "SHAPE_STAR", "SHAPE_WAVY">>
InSignOrder(mat) == \E k \in 1..Len(SIGN_ORDER) : SIGN_ORDER[k] = mat
SIGN_ORDER_LOOKUP(mat) == (CHOOSE k \in 1..Len(SIGN_ORDER) : SIGN_ORDER[k] = mat) - 1

\* Python's order of the overlay names the scenes use ('' < 'a' < 'ab' < 'b')
NameOrder == <<"", "a", "ab", "b">>
NameRank(n) == CHOOSE k \in 1..Len(NameOrder) : NameOrder[k] = n
NameLE(x, y) == NameRank(x) <= NameRank(y)

(***************************************************************************)
(* Generic helpers.                                                        *)
(***************************************************************************)
SeqsUpTo(S, n) == UNION {[1..k -> S] : k \in 0..n}
Range(s) == {s[k] : k \in 1..Len(s)}
MaxOf(S) == IF S = {} THEN 0 ELSE CHOOSE m \in S : \A x \in S : x <= m
FreshId(f) == CHOOSE n \in 1..(Cardinality(DOMAIN f) + 1) : n \notin DOMAIN f
Extend(f, k, v) == [x \in DOMAIN f \cup {k} |-> IF x = k THEN v ELSE f[x]]

(***************************************************************************)
(* First loop (lines 340-361): classify one instance.                      *)
(***************************************************************************)
\* Item.__init__ (lines 205-233) stored under ITEMS[inst_name]: a key that is
\* already there keeps its place in the dict.
RegisterItem(n) ==
    /\ ITEMS' = IF n \in Range(ITEMS) THEN ITEMS ELSE Append(ITEMS, n)
    /\ timer' = Extend(timer, n, {})
    /\ ind_panels' = Extend(ind_panels, n, {})
    /\ antlines' = Extend(antlines, n, {})
    /\ LET ins == Extend(inputs, n, {})
           outs == Extend(outputs, n, {})
           live == UNION {ins[x] \cup outs[x] : x \in DOMAIN ins}
       IN  /\ inputs' = ins
           /\ outputs' = outs
           \* Connections no Item refers to any more are garbage
           /\ conns' = [c \in live |-> conns[c]]

AfterScan(done) == IF done THEN "overlays" ELSE "classify"

ClassifyInst(i) ==
    /\ pc = "classify"
    /\ i \in instSet \ scanned
    /\ scanned' = scanned \cup {i}
    /\ LET inst_name == TargetName(i)
           traits == Traits(i)
           done == scanned \cup {i} = instSet
       IN  IF inst_name = "" THEN
               /\ pc' = AfterScan(done)
               /\ UNCHANGED <<toggles, panels, itemVars, inputs, outputs, conns, err>>
           ELSE IF "indicator_toggle" \in traits THEN
               /\ toggles' = toggles \cup {inst_name}
               /\ pc' = AfterScan(done)
               /\ UNCHANGED <<panels, itemVars, inputs, outputs, conns, err>>
           ELSE IF "indicator_panel" \in traits THEN
               /\ panels' = panels \cup {inst_name}
               /\ pc' = AfterScan(done)
               /\ UNCHANGED <<toggles, itemVars, inputs, outputs, conns, err>>
           ELSE IF i \notin known THEN
               /\ pc' = "error"
               /\ err' = [kind |-> "no_connections", name |-> ItemId(i)]
               /\ UNCHANGED <<toggles, panels, itemVars, inputs, outputs, conns>>
           ELSE
               /\ RegisterItem(inst_name)
               /\ pc' = AfterScan(done)
               /\ UNCHANGED <<toggles, panels, err>>
    /\ UNCHANGED <<last, parseVars, sceneVars, fixupVars, ents, histVars>>
    /\ UNCHANGED <<ovScanned, overlays, sign_shape_overlays, shapes,
                   sign_shape_by_index, built, fixed>>

(***************************************************************************)
(* Second loop (lines 363-370): file one overlay.                          *)
(***************************************************************************)
\* sign_shape_overlays[name, mat.casefold()].append(over)
AppendSign(sso, name, mat, o) ==
    IF \E k \in 1..Len(sso) : sso[k].name = name /\ sso[k].mat = mat
    THEN LET k == CHOOSE j \in 1..Len(sso) : sso[j].name = name /\ sso[j].mat = mat
         IN  [sso EXCEPT ![k].ents = Append(@, o)]
    ELSE Append(sso, [name |-> name, mat |-> mat, ents |-> <<o>>])

\* overlays[name]: a defaultdict(set)
OverlaysOf(ov, name) == IF name \in DOMAIN ov THEN ov[name] ELSE {}

ScanOverlay(o) ==
    /\ pc = "overlays"
    /\ o \in DOMAIN ents \ ovScanned
    /\ ovScanned' = ovScanned \cup {o}
    /\ LET name == ents[o].targetname
           mat == ents[o].material
       IN  IF InSignOrder(mat) THEN
               /\ sign_shape_overlays' = AppendSign(sign_shape_overlays, name, mat, o)
               /\ overlays' = overlays
           ELSE
               /\ overlays' = Extend(overlays, name, OverlaysOf(overlays, name) \cup {o})
               /\ sign_shape_overlays' = sign_shape_overlays
    /\ pc' = IF ovScanned \cup {o} = DOMAIN ents THEN "shapes" ELSE "overlays"
    /\ UNCHANGED <<connVars, parseVars, sceneVars, fixupVars, ents, itemVars, histVars, err>>
    /\ UNCHANGED <<scanned, toggles, panels, shapes, sign_shape_by_index, built, fixed>>

(***************************************************************************)
(* Third loop (lines 372-382) and ShapeSignage.__init__ (lines 78-96).     *)
(***************************************************************************)
\* sign_shape_by_index[shape.index].append(shape); a list of [index, shapes]
\* in dict order
AppendByIndex(sbi, idx, s) ==
    IF \E k \in 1..Len(sbi) : sbi[k].index = idx
    THEN LET k == CHOOSE j \in 1..Len(sbi) : sbi[j].index = idx
         IN  [sbi EXCEPT ![k].shapes = Append(@, s)]
    ELSE Append(sbi, [index |-> idx, shapes |-> <<s>>])

\* ShapeSignage(overlays): name and index come from the first overlay
NewShape(en, ovs) ==
    [name |-> en[ovs[1]].targetname,
     index |-> SIGN_ORDER_LOOKUP(en[ovs[1]].material),
     overlays |-> ovs,
     repeat_group |-> 0,
     overlay_frames |-> <<>>]

\* del overlay['targetname'] for each overlay of the shape: a later read
\* of the key gives ''
DelTargetnames(en, ovs) ==
    [x \in DOMAIN en |-> IF x \in Range(ovs) THEN [en[x] EXCEPT !.targetname = ""] ELSE en[x]]

RECURSIVE ShapeLoop(_, _, _, _, _)
ShapeLoop(sso, k, sh, sbi, en) ==
    IF k > Len(sso) THEN [shapes |-> sh, by_index |-> sbi, ents |-> en]
    ELSE LET shape == NewShape(en, sso[k].ents)
             id == Len(sh) + 1
         IN  ShapeLoop(sso, k + 1, Append(sh, shape),
                       AppendByIndex(sbi, shape.index, id),
                       DelTargetnames(en, sso[k].ents))

BuildShapes ==
    /\ pc = "shapes"
    /\ LET r == ShapeLoop(sign_shape_overlays, 1, <<>>, <<>>, ents)
       IN  /\ shapes' = r.shapes
           /\ sign_shape_by_index' = r.by_index
           /\ ents' = r.ents
    /\ pc' = IF Len(ITEMS) = 0 THEN "frames" ELSE "build"
    /\ UNCHANGED <<connVars, parseVars, sceneVars, fixupVars, itemVars, histVars, err>>
    /\ UNCHANGED <<scanned, ovScanned, toggles, panels, overlays, sign_shape_overlays,
                   built, fixed>>

(***************************************************************************)
(* Fourth loop (lines 385-453): one Item's outputs become antlines, panel  *)
(* links and Connections.                                                  *)
(***************************************************************************)
\* The keys of the local 'inputs' dict (lines 389-390), in dict order: the
\* targets of the raw outputs, by first appearance
RECURSIVE TargetsOf(_)
TargetsOf(outs) ==
    IF outs = <<>> THEN <<>>
    ELSE LET rest == TargetsOf(SelectSeq(Tail(outs), LAMBDA o : o.target # Head(outs).target))
         IN  <<Head(outs).target>> \o rest

\* inputs[out_name]
OutputsTo(outs, out_name) == SelectSeq(outs, LAMBDA o : o.target = out_name)

\* A faulty range test, which forgets the lower end
PanelTimerNoLowerBound(enabled, tim) ==
    IF enabled THEN (IF tim <= TimerMax THEN {tim} ELSE {}) ELSE {}
\* Lines 405-411: the timer a panel gives the item
PanelTimer(enabled, tim) ==
    IF enabled
    THEN (IF TimerMin <= tim /\ tim <= TimerMax THEN {tim} ELSE {})
    ELSE {}

\* A faulty lookup, which passes over a name that is no key of ITEMS
UnknownInstanceIgnored(acc, out_name) == acc
\* Lines 413-416: ITEMS[out_name] raises KeyError, which becomes the
\* ValueError '"{}" is not a known instance!'
UnknownInstance(acc, out_name) ==
    [acc EXCEPT !.err = [kind |-> "unknown_instance", name |-> out_name]]

\* Lines 393-416: the loop over the targets.  acc is [timer, ind_panels,
\* antlines, input_items, err]; the raise of line 416 ends the loop.
RECURSIVE TargetLoop(_, _)
TargetLoop(ts, acc) ==
    IF ts = <<>> \/ acc.err # NoError THEN acc
    ELSE LET out_name == Head(ts)
             nxt ==
               IF HasSkipSuffix(out_name) THEN acc
               ELSE IF out_name \in toggles THEN
                   [acc EXCEPT !.antlines = @ \cup OverlaysOf(overlays, IndicatorName(out_name))]
               ELSE IF out_name \in panels THEN
                   [acc EXCEPT !.ind_panels = @ \cup {out_name},
                               !.timer = PanelTimer(timEnabled[out_name], timDelay[out_name])]
               ELSE IF out_name \in Range(ITEMS) THEN
                   [acc EXCEPT !.input_items = Append(@, out_name)]
               ELSE UnknownInstance(acc, out_name)
         IN  TargetLoop(Tail(ts), nxt)

\* A faulty choice, with the two instances swapped
DesiredPanelInstSwapped(tm) == IF tm = {} THEN panel_timer ELSE panel_check
\* Line 418: desired_panel_inst
DesiredPanelInst(tm) == IF tm = {} THEN panel_check ELSE panel_timer

\* Lines 433-445: the type of a Connection into a funnel, "" when the loop
\* ends without a break (the ValueError of line 442)
RECURSIVE FunnelType(_)
FunnelType(in_outputs) ==
    IF in_outputs = <<>> THEN ""
    ELSE IF Head(in_outputs).pair \in tbeam_polarity THEN TBEAM_DIR
    ELSE IF Head(in_outputs).pair \in tbeam_io THEN TBEAM_IO
    ELSE FunnelType(Tail(in_outputs))

\* Lines 425-453: the loop over input_items.  acc is [inputs, outputs,
\* conns, err]
RECURSIVE EdgeLoop(_, _, _, _)
EdgeLoop(item, outs, its, acc) ==
    IF its = <<>> \/ acc.err # NoError THEN acc
    ELSE LET inp_item == Head(its)
             in_outputs == OutputsTo(outs, inp_item)
             funnel == "tbeam_emitter" \in Traits(inp_item)
             conn_type == IF funnel THEN FunnelType(in_outputs) ELSE DEFAULT
         IN  IF conn_type = ""
             THEN [acc EXCEPT !.err = [kind |-> "no_valid_types", name |-> inp_item]]
             ELSE LET c == FreshId(acc.conns)
                      cn == Extend(acc.conns, c,
                                   NewConnection(inp_item, item, conn_type, in_outputs))
                  IN  EdgeLoop(item, outs, Tail(its),
                               [acc EXCEPT !.conns = cn,
                                           !.inputs = AddInputs(acc.inputs, cn, c),
                                           !.outputs = AddOutputs(acc.outputs, cn, c)])

\* A faulty schedule, in which the loop of line 385 also runs inside the
\* loop of line 340
BuildReadyDuringScan == pc \in {"classify", "build"} /\ built < Len(ITEMS)
\* The loop of line 385 runs after the scans, on the next Item of ITEMS
BuildReady == pc = "build" /\ built < Len(ITEMS)

ProcessItem ==
    /\ BuildReady
    /\ LET item == ITEMS[built + 1]
           outs == instOuts[item]
           t == TargetLoop(TargetsOf(outs),
                           [timer |-> timer[item], ind_panels |-> ind_panels[item],
                            antlines |-> antlines[item], input_items |-> <<>>,
                            err |-> NoError])
           e == EdgeLoop(item, outs, t.input_items,
                         [inputs |-> inputs, outputs |-> outputs, conns |-> conns,
                          err |-> NoError])
       IN  /\ timer' = [timer EXCEPT ![item] = t.timer]
           /\ ind_panels' = [ind_panels EXCEPT ![item] = t.ind_panels]
           /\ antlines' = [antlines EXCEPT ![item] = t.antlines]
           /\ IF t.err # NoError THEN
                  /\ err' = t.err
                  /\ pc' = "error"
                  /\ UNCHANGED <<panFile, timEnabled, inputs, outputs, conns, built>>
              ELSE
                  /\ panFile' = [p \in DOMAIN panFile |->
                                   IF p \in t.ind_panels THEN DesiredPanelInst(t.timer)
                                   ELSE panFile[p]]
                  /\ timEnabled' = [p \in DOMAIN timEnabled |->
                                      IF p \in t.ind_panels THEN t.timer # {}
                                      ELSE timEnabled[p]]
                  /\ inputs' = e.inputs
                  /\ outputs' = e.outputs
                  /\ conns' = e.conns
                  /\ err' = e.err
                  /\ IF e.err # NoError
                     THEN pc' = "error" /\ built' = built
                     ELSE /\ built' = built + 1
                          /\ pc' = IF built + 1 = Len(ITEMS) THEN "fixup" ELSE "build"
    /\ ITEMS' = ITEMS
    /\ UNCHANGED <<last, parseVars, sceneVars, connCount, connCountTbeam, ents, histVars>>
    /\ UNCHANGED <<scanned, ovScanned, toggles, panels, overlays, sign_shape_overlays,
                   shapes, sign_shape_by_index, fixed>>

(***************************************************************************)
(* Fifth loop (lines 455-471): the connection counts of one Item.          *)
(***************************************************************************)
\* A faulty count, which forgets the filter
CountPlainUnfiltered(ins, cn) == Cardinality(ins)
\* sum(1 for conn in item.inputs if conn.type is not ConnType.TBEAM_DIR)
CountPlain(ins, cn) == Cardinality({c \in ins : cn[c].type # TBEAM_DIR})
\* sum(1 for conn in item.inputs if conn.type is ConnType.TBEAM_DIR)
CountPolarity(ins, cn) == Cardinality({c \in ins : cn[c].type = TBEAM_DIR})

\* The loop of line 455 runs after the loop of line 385
FixupReady == pc = "fixup" /\ fixed < Len(ITEMS)

FixupItem ==
    /\ FixupReady
    /\ LET item == ITEMS[fixed + 1]
       IN  /\ connCount' = IF connCount[item] # {}
                           THEN [connCount EXCEPT ![item] = {CountPlain(inputs[item], conns)}]
                           ELSE connCount
           /\ connCountTbeam' = IF connCountTbeam[item] # {}
                                THEN [connCountTbeam EXCEPT
                                        ![item] = {CountPolarity(inputs[item], conns)}]
                                ELSE connCountTbeam
    /\ fixed' = fixed + 1
    /\ pc' = IF fixed + 1 = Len(ITEMS) THEN "frames" ELSE "fixup"
    /\ UNCHANGED <<connVars, parseVars, sceneVars, timEnabled, panFile, ents, itemVars,
                   histVars, err>>
    /\ UNCHANGED <<scanned, ovScanned, toggles, panels, overlays, sign_shape_overlays,
                   shapes, sign_shape_by_index, built>>

(***************************************************************************)
(* Signage frames (lines 473-490).                                         *)
(***************************************************************************)
\* shape_mat.sort(key=lambda shape: shape.name): a stable sort of a list of
\* shapes by name
InsertByName(sh, sorted, x) ==
    LET k == Cardinality({j \in 1..Len(sorted) : NameLE(sh[sorted[j]].name, sh[x].name)})
    IN  SubSeq(sorted, 1, k) \o <<x>> \o SubSeq(sorted, k + 1, Len(sorted))

RECURSIVE SortFrom(_, _, _, _)
SortFrom(sh, lst, k, acc) ==
    IF k > Len(lst) THEN acc
    ELSE SortFrom(sh, lst, k + 1, InsertByName(sh, acc, lst[k]))

\* A faulty grouping, which forgets the sort of line 478
SortByNameSkipped(sh, lst) == lst
\* shape_mat.sort(key=lambda shape: shape.name)
SortByName(sh, lst) == SortFrom(sh, lst, 1, <<>>)

\* [mat for mat in shape_frame_tex if mat]
FrameTex(tex) == SelectSeq(tex, LAMBDA mat : mat # "")

\* shape_frame_tex[(index-1) % len(shape_frame_tex)]
FrameMat(tex, index) == tex[((index - 1) % Len(tex)) + 1]

\* Lines 479-490: the loop over one sorted list.  k is the position in the
\* list, so the index of enumerate() is k - 1.
RECURSIVE EnumLoop(_, _, _, _, _)
EnumLoop(sorted, k, tex, sh, en) ==
    IF k > Len(sorted) THEN [shapes |-> sh, ents |-> en]
    ELSE LET id == sorted[k]
             index == k - 1
             sh1 == [sh EXCEPT ![id].repeat_group = index]
         IN  IF index = 0 THEN EnumLoop(sorted, k + 1, tex, sh1, en)
             ELSE LET frame_mat == FrameMat(tex, index)
                      ovs == sh[id].overlays
                      base == MaxOf(DOMAIN en)
                      new == (base + 1)..(base + Len(ovs))
                      en2 == [x \in DOMAIN en \cup new |->
                                IF x \in DOMAIN en THEN en[x]
                                ELSE [en[ovs[x - base]] EXCEPT !.material = frame_mat,
                                                               !.renderorder = 1]]
                      sh2 == [sh1 EXCEPT ![id].overlay_frames =
                                           @ \o [j \in 1..Len(ovs) |-> base + j]]
                  IN  EnumLoop(sorted, k + 1, tex, sh2, en2)

\* Line 476: the loop over sign_shape_by_index.values()
RECURSIVE IndexLoop(_, _, _, _, _)
IndexLoop(sbi, k, tex, sh, en) ==
    IF k > Len(sbi) THEN [by_index |-> sbi, shapes |-> sh, ents |-> en]
    ELSE LET sorted == SortByName(sh, sbi[k].shapes)
             r == EnumLoop(sorted, 1, tex, sh, en)
         IN  IndexLoop([sbi EXCEPT ![k].shapes = sorted], k + 1, tex, r.shapes, r.ents)

SignFrames ==
    /\ pc = "frames"
    /\ LET tex == FrameTex(shape_frame_tex)
       IN  IF Len(tex) > 0 /\ enable_shape_frame
           THEN LET r == IndexLoop(sign_shape_by_index, 1, tex, shapes, ents)
                IN  /\ sign_shape_by_index' = r.by_index
                    /\ shapes' = r.shapes
                    /\ ents' = r.ents
           ELSE UNCHANGED <<sign_shape_by_index, shapes, ents>>
    /\ pc' = "done"
    /\ UNCHANGED <<connVars, parseVars, sceneVars, fixupVars, itemVars, histVars, err>>
    /\ UNCHANGED <<scanned, ovScanned, toggles, panels, overlays, sign_shape_overlays,
                   built, fixed>>

(***************************************************************************)
(* calc_connections is called again on the scene as the last call left it: *)
(* the locals are new, ITEMS (module level) and the vmf are kept.          *)
(***************************************************************************)
Restart ==
    /\ pc = "done"
    /\ runs < MaxRuns
    /\ runs' = runs + 1
    /\ pc' = "classify"
    /\ scanned' = {}
    /\ ovScanned' = {}
    /\ toggles' = {}
    /\ panels' = {}
    /\ overlays' = EmptyFn
    /\ sign_shape_overlays' = <<>>
    /\ shapes' = <<>>
    /\ sign_shape_by_index' = <<>>
    /\ built' = 0
    /\ fixed' = 0
    /\ prevCounts' = [cc |-> connCount, cct |-> connCountTbeam]
    /\ entsAtStart' = ents
    /\ enabledAtStart' = timEnabled
    /\ UNCHANGED <<connVars, parseVars, sceneVars, fixupVars, ents, itemVars, err>>

Next ==
    \/ \E i \in InstIds : ClassifyInst(i)
    \/ \E o \in DOMAIN ents : ScanOverlay(o)
    \/ BuildShapes
    \/ ProcessItem
    \/ FixupItem
    \/ SignFrames

NextRerun == Next \/ Restart

(***************************************************************************)
(* ItemType.parse (lines 143-191) and read_configs (lines 303-308).        *)
(* A prop is [real_name, sec_enable, sec_disable, default_dual, DualType]: *)
(* the two booleans say whether the key is in the prop, the two tokens are *)
(* the key's value, or Absent.                                             *)
(***************************************************************************)
Absent == "<absent>"

\* str.casefold() on the strings the configurations use
Casefold(t) ==
    CASE t = "Primary" -> "primary"
      [] t = "BOTH" -> "both"
      [] t = "Btn" -> "btn"
      [] OTHER -> t

\* conf[key, default]
ValueOr(v, default) == IF v = Absent THEN default ELSE v

ParseOk(t) == [ok |-> TRUE, type |-> t, err |-> NoError]
ParseFail(e) == [ok |-> FALSE, type |-> NoError, err |-> e]

\* The arguments of the message of lines 177-179: conf.real_name and
\* conf['default_dual'], which raises when the key is not there
AffinityError(p) ==
    IF p.default_dual = Absent
    THEN [kind |-> "IndexError", what |-> "no key", id |-> "", token |-> "default_dual"]
    ELSE [kind |-> "ValueError", what |-> "Invalid output affinity",
          id |-> p.real_name, token |-> p.default_dual]

ParseItemType(p) ==
    LET has_sec == p.sec_enable \/ p.sec_disable
        default_dual == Casefold(ValueOr(p.default_dual, "default"))
        output_type == Casefold(ValueOr(p.DualType, "default"))
    IN  IF has_sec /\ default_dual \notin ConnTypeValues
        THEN ParseFail([kind |-> "ValueError", what |-> "Invalid default type",
                        id |-> p.real_name, token |-> p.default_dual])
        ELSE IF output_type \notin ConnTypeValues
        THEN ParseFail(AffinityError(p))
        ELSE ParseOk([id |-> p.real_name,
                      default_dual |-> IF has_sec THEN default_dual ELSE "None",
                      has_sec |-> has_sec,
                      output_type |-> output_type])

\* One turn of the loop of read_configs
ReadProp ==
    /\ pc = "config"
    /\ perr = NoError
    /\ propIdx < Len(conf)
    /\ propIdx' = propIdx + 1
    /\ LET prop == conf[propIdx + 1]
           name == Casefold(prop.real_name)
           r == ParseItemType(prop)
       IN  IF name \in DOMAIN ITEM_TYPES THEN
               /\ perr' = [kind |-> "ValueError", what |-> "Duplicate item type",
                           id |-> prop.real_name, token |-> ""]
               /\ ITEM_TYPES' = ITEM_TYPES
           ELSE IF r.ok THEN
               /\ ITEM_TYPES' = Extend(ITEM_TYPES, name, r.type)
               /\ perr' = perr
           ELSE
               /\ perr' = r.err
               /\ ITEM_TYPES' = ITEM_TYPES
    /\ conf' = conf
    /\ UNCHANGED <<connVars, sceneVars, fixupVars, ents, localVars, itemVars,
                   histVars, pc, err>>

NextParse == ReadProp

(***************************************************************************)
(* Initial states.                                                         *)
(***************************************************************************)
Out(t, p) == [target |-> t, pair |-> p]
Overlay(n, m) == [targetname |-> n, material |-> m, renderorder |-> 0]

\* Nothing has been configured
ParseIdle ==
    /\ conf = <<>>
    /\ propIdx = 0
    /\ ITEM_TYPES = EmptyFn
    /\ perr = NoError

\* No scene, calc_connections is not running
CalcIdle ==
    /\ instSet = {} /\ known = {} /\ instOuts = EmptyFn
    /\ timDelay = EmptyFn /\ timEnabled = EmptyFn /\ panFile = EmptyFn
    /\ connCount = EmptyFn /\ connCountTbeam = EmptyFn
    /\ ents = EmptyFn /\ shape_frame_tex = <<>> /\ enable_shape_frame = FALSE
    /\ scanned = {} /\ ovScanned = {} /\ toggles = {} /\ panels = {}
    /\ overlays = EmptyFn /\ sign_shape_overlays = <<>> /\ shapes = <<>>
    /\ sign_shape_by_index = <<>> /\ built = 0 /\ fixed = 0
    /\ ITEMS = <<>> /\ timer = EmptyFn /\ ind_panels = EmptyFn /\ antlines = EmptyFn
    /\ runs = 0 /\ prevCounts = [cc |-> EmptyFn, cct |-> EmptyFn]
    /\ entsAtStart = EmptyFn /\ enabledAtStart = EmptyFn
    /\ err = NoError

\* calc_connections is entered for the first time: ITEMS = {} (line 73), the
\* locals of lines 323-328 are empty
CalcStart(insts, kn, outs, delay, enabled, file, cc, cct, en, tex, enable) ==
    /\ instSet = insts /\ known = kn /\ instOuts = outs
    /\ timDelay = delay /\ timEnabled = enabled /\ panFile = file
    /\ connCount = cc /\ connCountTbeam = cct
    /\ ents = en /\ shape_frame_tex = tex /\ enable_shape_frame = enable
    /\ scanned = {} /\ ovScanned = {} /\ toggles = {} /\ panels = {}
    /\ overlays = EmptyFn /\ sign_shape_overlays = <<>> /\ shapes = <<>>
    /\ sign_shape_by_index = <<>> /\ built = 0 /\ fixed = 0
    /\ ITEMS = <<>> /\ timer = EmptyFn /\ ind_panels = EmptyFn /\ antlines = EmptyFn
    /\ inputs = EmptyFn /\ outputs = EmptyFn /\ conns = EmptyFn /\ last = NoLast
    /\ runs = 1 /\ prevCounts = [cc |-> EmptyFn, cct |-> EmptyFn]
    /\ entsAtStart = en /\ enabledAtStart = enabled
    /\ err = NoError
    /\ pc = "classify"
    /\ ParseIdle

\* ---- Connection objects: NumItems Items, NumConns Connections just
\* constructed between any of them
InitConn ==
    /\ pc = "conn"
    /\ inputs = [i \in ConnItems |-> {}]
    /\ outputs = [i \in ConnItems |-> {}]
    /\ conns \in [ConnIds -> {NewConnection(t, f, DEFAULT, <<>>) : t \in ConnItems, f \in ConnItems}]
    /\ last = NoLast
    /\ ParseIdle
    /\ CalcIdle

\* ---- read_configs on at most MaxProps item configurations
PropNames == {"Btn", "btn", "door"}
PropTokens == {Absent, "Primary", "bogus"}
Props == [real_name : PropNames, sec_enable : BOOLEAN, sec_disable : BOOLEAN,
          default_dual : PropTokens, DualType : PropTokens]

InitParse ==
    /\ pc = "config"
    /\ conf \in UNION {[1..k -> Props] : k \in 1..MaxProps}
    /\ propIdx = 0
    /\ ITEM_TYPES = EmptyFn
    /\ perr = NoError
    /\ inputs = EmptyFn /\ outputs = EmptyFn /\ conns = EmptyFn /\ last = NoLast
    /\ CalcIdle

\* ---- Scenes for the wiring: two items (B is a funnel), a panel, a toggle
\* and an unnamed instance; at most MaxOuts raw outputs in all
WireOutputs ==
    {Out("B", p) : p \in {"pol_act", "io_act", "other"}}
    \cup {Out(t, "other") : t \in {"A", "P1", "T", "B_brush", "ghost"}}

FixedOverlays ==
    <<Overlay("a", "SHAPE_DOT"), Overlay("b", "SHAPE_DOT"), Overlay("ant1", "antline")>>

InitWire ==
    \E outs \in [ItemInsts -> SeqsUpTo(WireOutputs, MaxOuts)],
       kn \in {ItemInsts, {"A"}},
       ccA \in {{}, {5}} :
        /\ Len(outs["A"]) + Len(outs["B"]) <= MaxOuts
        /\ kn # ItemInsts => (outs["A"] = <<>> /\ outs["B"] = <<>> /\ ccA = {})
        /\ CalcStart({"A", "B", "P1", "T", "U"}, kn, outs,
                     [p \in PanelInsts |-> 3], [p \in PanelInsts |-> TRUE],
                     [p \in PanelInsts |-> panel_check],
                     [i \in ItemInsts |-> IF i = "A" THEN ccA ELSE {5}],
                     [i \in ItemInsts |-> IF i = "B" /\ ccA = {} THEN {5} ELSE {}],
                     FixedOverlays, <<"f1">>, TRUE)

\* ---- Scenes for the panels: two items and two panels, any flag and delay
\* on each panel, at most MaxPanelOuts raw outputs in all, each to a panel
PanelOutputs == {Out(t, "other") : t \in PanelInsts}
Delays == {TimerMin - 1, TimerMin, TimerMax, TimerMax + 1}

InitPanel ==
    \E outs \in [ItemInsts -> SeqsUpTo(PanelOutputs, MaxPanelOuts)],
       delay \in [PanelInsts -> Delays],
       enabled \in [PanelInsts -> BOOLEAN],
       file \in {panel_check, panel_timer} :
        /\ Len(outs["A"]) + Len(outs["B"]) <= MaxPanelOuts
        /\ CalcStart({"A", "B", "P1", "P2"}, ItemInsts, outs, delay, enabled,
                     [p \in PanelInsts |-> file],
                     [i \in ItemInsts |-> {5}], [i \in ItemInsts |-> {}],
                     SubSeq(FixedOverlays, 1, 2), <<"f1">>, TRUE)

\* ---- Scenes for the signage: one item, MaxOverlays overlays of any kind
\* (entities are interchangeable, so their kinds are taken in one order)
OverlayKinds ==
    <<Overlay("a", "SHAPE_DOT"), Overlay("ab", "SHAPE_DOT"), Overlay("b", "SHAPE_DOT"),
      Overlay("a", "SHAPE_MOON"), Overlay("ab", "SHAPE_MOON"), Overlay("b", "SHAPE_MOON"),
      Overlay("ant1", "antline")>>
FrameLists == {<<>>, <<"">>, <<"f1">>, <<"f1", "f2">>, <<"", "f2">>}

InitSign ==
    \E kinds \in [1..MaxOverlays -> 1..Len(OverlayKinds)],
       tex \in FrameLists, enable \in BOOLEAN :
        /\ \A j \in 1..(MaxOverlays - 1) : kinds[j] <= kinds[j + 1]
        /\ CalcStart({"A"}, ItemInsts, [i \in ItemInsts |-> <<>>],
                     [p \in PanelInsts |-> 3], [p \in PanelInsts |-> TRUE],
                     [p \in PanelInsts |-> panel_check],
                     [i \in ItemInsts |-> {5}], [i \in ItemInsts |-> {}],
                     [j \in 1..MaxOverlays |-> OverlayKinds[kinds[j]]], tex, enable)

(***************************************************************************)
(* Specifications.                                                         *)
(***************************************************************************)
Spec == InitWire /\ [][NextRerun]_vars
SpecPanel == InitPanel /\ [][Next]_vars
SpecSign == InitSign /\ [][Next]_vars
SpecConn == InitConn /\ [][NextConn]_vars
SpecParse == InitParse /\ [][NextParse]_vars

(***************************************************************************)
(* Properties.                                                             *)
(***************************************************************************)
Done == pc = "done"
TimerRange == TimerMin..TimerMax

\* C1 (SpecConn): after any sequence of add(), remove() and set_item()
\* calls, each Connection c is in c.out.outputs exactly when it is in
\* c.inp.inputs, and in no other Item's inputs or outputs; after c.remove()
\* it is in neither set; after c.set_item(input=X) it is registered with
\* c.inp = X (so, being in no other Item's inputs, no longer on an old
\* endpoint other than X), and so for output=Y.
ConnDualMembership ==
    /\ \A c \in ConnIds :
        /\ (c \in outputs[conns[c].out]) <=> (c \in inputs[conns[c].inp])
        /\ \A i \in ConnItems :
            /\ i # conns[c].inp => c \notin inputs[i]
            /\ i # conns[c].out => c \notin outputs[i]
    /\ last.op = "remove" =>
          \A i \in ConnItems : last.c \notin inputs[i] /\ last.c \notin outputs[i]
    /\ last.op = "set_item" =>
          /\ last.input # NoItem => conns[last.c].inp = last.input
          /\ last.output # NoItem => conns[last.c].out = last.output
          /\ last.c \in inputs[conns[last.c].inp]
          /\ last.c \in outputs[conns[last.c].out]

\* A registered Connection has been moved to another target Item while
\* another Connection stays registered.
ConnRelocatedWitness ==
    /\ last.op = "set_item"
    /\ last.moved
    /\ last.c \in inputs[conns[last.c].inp]
    /\ \E c \in ConnIds \ {last.c} : c \in inputs[conns[c].inp]

\* C2 (Spec): a Connection into a funnel is funnel-polarity (TBEAM_DIR)
\* whenever one of the raw outputs feeding it has a pair of the polarity set,
\* and funnel-enable (TBEAM_IO) only when none has and one has a pair of the
\* on/off set, whatever the number and the order of the raw outputs.
FunnelPolarityWins ==
    \A c \in DOMAIN conns :
        "tbeam_emitter" \in Traits(conns[c].inp) =>
            LET pairs == {conns[c].outputs[k].pair : k \in 1..Len(conns[c].outputs)}
            IN  /\ pairs \cap tbeam_polarity # {} => conns[c].type = TBEAM_DIR
                /\ conns[c].type = TBEAM_IO =>
                      pairs \cap tbeam_polarity = {} /\ pairs \cap tbeam_io # {}

\* The panels the raw outputs of an item instance name
PanelTargets(i) == {instOuts[i][k].target : k \in 1..Len(instOuts[i])} \cap panels

\* C3 (SpecPanel): when calc_connections completes, an Item one of whose
\* raw outputs targets a panel with the timer-enabled flag false has timer
\* None, however many other panels it targets and in whatever order.
DisabledPanelClearsTimer ==
    Done =>
        \A n \in Range(ITEMS) : \A p \in PanelTargets(n) :
            ~enabledAtStart[p] => timer[n] = {}

\* C4 (SpecPanel): every Item's timer is None or an integer of 1..30, at
\* completion and before; an Item all of whose panels have a delay outside
\* 1..30 has timer None, whether the panels' timers are enabled or not.
TimerInRange ==
    /\ \A n \in DOMAIN timer :
          timer[n] = {} \/ \E t \in TimerRange : timer[n] = {t}
    /\ Done =>
          \A n \in Range(ITEMS) :
              (\A p \in PanelTargets(n) : timDelay[p] \notin TimerRange) => timer[n] = {}

\* An Item whose only panel has the timer enabled and a delay of 31 ends
\* with timer None, and another Item ends with a timer of 30.
TimerInRangeWitness ==
    /\ Done
    /\ \E n \in Range(ITEMS) : \E p \in PanelInsts :
          /\ instOuts[n] = <<Out(p, "other")>>
          /\ enabledAtStart[p]
          /\ timDelay[p] = TimerMax + 1
          /\ timer[n] = {}
    /\ \E n \in Range(ITEMS) : timer[n] = {TimerMax}

\* The panel p shows what Item n's timer asks for
PanelMatches(n, p) ==
    /\ panFile[p] = (IF timer[n] # {} THEN panel_timer ELSE panel_check)
    /\ timEnabled[p] = (timer[n] # {})

\* C5 as claimed (SpecPanel): at completion every panel of every Item's
\* ind_panels has the file and the timer-enabled fixup of that Item's timer,
\* a panel targeted by more than one Item included.
EveryPanelMatchesEveryItem ==
    Done => \A n \in Range(ITEMS) : \A p \in ind_panels[n] : PanelMatches(n, p)

\* C5 as amended (SpecPanel): at completion every panel has the file and the
\* timer-enabled fixup of the timer of the last Item of ITEMS that has it in
\* its ind_panels; so of its Item's timer when one Item targets it.
PanelMatchesLastItem ==
    Done =>
        \A k \in 1..Len(ITEMS) : \A p \in ind_panels[ITEMS[k]] :
            (\A j \in (k + 1)..Len(ITEMS) : p \notin ind_panels[ITEMS[j]])
                => PanelMatches(ITEMS[k], p)

\* A panel of both Items, which end with different timers, started with the
\* timer off and is a timer panel at completion, as the second Item asks.
PanelMatchesWitness ==
    /\ Done
    /\ Len(ITEMS) = 2
    /\ timer[ITEMS[1]] # timer[ITEMS[2]]
    /\ timer[ITEMS[2]] # {}
    /\ \E p \in ind_panels[ITEMS[1]] \cap ind_panels[ITEMS[2]] :
          /\ ~enabledAtStart[p]
          /\ PanelMatches(ITEMS[2], p)
          /\ panFile[p] = panel_timer

\* The names the build knows: toggles, panels and Items
KnownNames == toggles \cup panels \cup Range(ITEMS)
\* The raw output targets of the registered Items
RawTargets == UNION {{instOuts[n][k].target : k \in 1..Len(instOuts[n])} : n \in Range(ITEMS)}

\* C6 as claimed (Spec): while an Item has a raw output to a name that is
\* no toggle, panel or Item, calc_connections never completes normally, and
\* its unknown-instance error names such a target.
UnknownTargetAborts ==
    /\ Done => RawTargets \subseteq KnownNames
    /\ (pc = "error" /\ err.kind = "unknown_instance") =>
          err.name \in RawTargets \ KnownNames

\* C6 as amended (Spec): while an Item has a raw output to a name that does
\* not end in _modelStart, _modelEnd or _brush and is no toggle, panel or
\* Item, calc_connections never completes normally; and an unknown-instance
\* error names such a target of the Item being processed.
UnknownTargetAbortsUnlessSuffix ==
    /\ Done => \A t \in RawTargets : t \in KnownNames \/ HasSkipSuffix(t)
    /\ (pc = "error" /\ err.kind = "unknown_instance") =>
          /\ built < Len(ITEMS)
          /\ \E k \in 1..Len(instOuts[ITEMS[built + 1]]) :
                instOuts[ITEMS[built + 1]][k].target = err.name
          /\ err.name \notin KnownNames
          /\ ~HasSkipSuffix(err.name)

\* The build has ended with the error that names "ghost".
UnknownTargetWitness ==
    /\ pc = "error"
    /\ err = [kind |-> "unknown_instance", name |-> "ghost"]
    /\ Len(ITEMS) = 2

\* C7 (Spec): at completion the connection-count fixup of every Item that
\* has one is the number of Connections of its inputs that are not
\* funnel-polarity, the funnel-connection-count fixup of every Item that has
\* one is the number of those that are; a second call leaves the counters
\* as the first did.
CountsExact ==
    Done =>
        /\ \A n \in Range(ITEMS) :
            /\ connCount[n] # {} =>
                  connCount[n] = {Cardinality({c \in inputs[n] : conns[c].type # TBEAM_DIR})}
            /\ connCountTbeam[n] # {} =>
                  connCountTbeam[n] = {Cardinality({c \in inputs[n] : conns[c].type = TBEAM_DIR})}
        /\ runs >= 2 => connCount = prevCounts.cc /\ connCountTbeam = prevCounts.cct

\* The second call has completed on a funnel with one polarity input and
\* one other input, and an Item without the fixup has none.
CountsExactWitness ==
    /\ Done
    /\ runs = 2
    /\ connCount["B"] = {1}
    /\ connCountTbeam["B"] = {1}
    /\ connCount["A"] = {}

\* The (name, palette index) units of the overlays this call started with
UnitsAtStart ==
    {<<entsAtStart[o].targetname, SIGN_ORDER_LOOKUP(entsAtStart[o].material)>> :
        o \in {x \in DOMAIN entsAtStart : InSignOrder(entsAtStart[x].material)}}
\* The frame list without its empty entries
FrameList == SelectSeq(shape_frame_tex, LAMBDA m : m # "")

\* C8 (SpecSign): with framing enabled and N >= 1 non-empty frame
\* materials, at completion there is one ShapeSignage per (name, palette
\* index) of the scene, its repeat group is the number of units of its index
\* with a smaller name (so 0..k in ascending name order), the unit of group 0
\* has no frames, and a unit of group g > 0 has one frame per overlay, a copy
\* of it with material frame_list[(g - 1) mod N] and render order 1; none of
\* this depends on the order the overlays were scanned in.
SignageGroups ==
    (Done /\ enable_shape_frame /\ Len(FrameList) >= 1) =>
        /\ {<<shapes[k].name, shapes[k].index>> : k \in 1..Len(shapes)} = UnitsAtStart
        /\ Len(shapes) = Cardinality(UnitsAtStart)
        /\ \A k \in 1..Len(shapes) :
            LET sh == shapes[k]
                g == Cardinality({u \in UnitsAtStart :
                        u[2] = sh.index /\ u[1] # sh.name /\ NameLE(u[1], sh.name)})
            IN  /\ sh.repeat_group = g
                /\ g = 0 => sh.overlay_frames = <<>>
                /\ g > 0 =>
                    /\ Len(sh.overlay_frames) = Len(sh.overlays)
                    /\ \A j \in 1..Len(sh.overlays) :
                        LET f == sh.overlay_frames[j]
                        IN  /\ f \in DOMAIN ents \ DOMAIN entsAtStart
                            /\ ents[f].material = FrameList[((g - 1) % Len(FrameList)) + 1]
                            /\ ents[f].renderorder = 1

\* Three units of one palette index have the groups 0, 1 and 2, and the
\* frame of the third wraps around a list of one material.
SignageGroupsWitness ==
    /\ Done /\ enable_shape_frame
    /\ Len(FrameList) = 1
    /\ \E k \in 1..Len(shapes) :
          /\ shapes[k].repeat_group = 2
          /\ shapes[k].name = "b"
          /\ Len(shapes[k].overlay_frames) = 1
          /\ ents[shapes[k].overlay_frames[1]].material = "f1"

\* The tokens of a prop that are no ConnType value
BadTokens(p) ==
    {t \in {p.default_dual, p.DualType} : t # Absent /\ Casefold(t) \notin ConnTypeValues}

\* C9 (SpecParse): when ItemType.parse is given a configuration whose
\* default-dual token or output-affinity token is no ConnType value, it
\* fails with a configuration error naming the item identifier and the
\* offending token, and no ItemType is registered for the configuration.
InvalidTokenRejected ==
    \A k \in 1..propIdx :
        LET p == conf[k]
            first == \A j \in 1..(k - 1) : Casefold(conf[j].real_name) # Casefold(p.real_name)
        IN  (first /\ BadTokens(p) # {}) =>
                /\ k = propIdx
                /\ Casefold(p.real_name) \notin DOMAIN ITEM_TYPES
                /\ perr.kind = "ValueError"
                /\ perr.id = p.real_name
                /\ perr.token \in BadTokens(p)

\* A step that registers a Connection on an Item
Registers ==
    \E n \in DOMAIN inputs' :
        ~(inputs'[n] \subseteq (IF n \in DOMAIN inputs THEN inputs[n] ELSE {}))
\* The named instances of the scene
NamedInsts == {i \in instSet : TargetName(i) # ""}

\* C10 (Spec): in every call, a Connection is registered only when every
\* named instance has been classified as toggle, panel or Item, and when no
\* connection-count fixup has been written and no frame overlay added yet;
\* a fixup is written and a frame added only when the edge-building loop has
\* gone through every Item.
TwoPhase ==
    [][ /\ Registers =>
              /\ NamedInsts \subseteq scanned
              /\ {TargetName(i) : i \in NamedInsts} = KnownNames
              /\ fixed = 0
              /\ DOMAIN ents = DOMAIN entsAtStart
        /\ (fixed' > fixed \/ connCount' # connCount \/ connCountTbeam' # connCountTbeam
              \/ DOMAIN ents' # DOMAIN ents) =>
              /\ built = Len(ITEMS)
              /\ pc \in {"fixup", "frames"} ]_vars

\* A call has completed with Connections registered, a counter rewritten
\* and a frame overlay added.
TwoPhaseWitness ==
    /\ Done
    /\ runs = 1
    /\ \E n \in Range(ITEMS) : inputs[n] # {}
    /\ connCount["B"] = {1}
    /\ DOMAIN ents # DOMAIN entsAtStart

=============================================================================
